---- MODULE Spec2Model ----
(***************************************************************************)
(* Model of go4.org/intern: the interning table valMap, the Value handles, *)
(* Get, the finalizer finalize, and the parts of the Go runtime they rely  *)
(* on (strong references held by callers, the collector's mark and sweep   *)
(* phases, the finalizer queue, the mutex mu).  The two earlier iterations *)
(* of the package (generation counter, refs counter) are modelled beside   *)
(* the current one (resurrected flag).                                     *)
(***************************************************************************)
EXTENDS Integers, FiniteSets, TLC

\* ------------------------------------------------------------------ bounds
\* Number of Value objects that can be allocated at the same time.
MaxHandles == 2
\* Number of strong references callers hold on one Value at the same time.
MaxRefs == 2
\* Largest value of the gen / refs counter of one Value, and of the number
\* of times Get returns one Value in the refs iteration.
MaxCount == 3

Values == {"foo", "bar"}
Handles == 1..MaxHandles
\* A nil *Value / an absent map entry.
Nil == 0
\* The cmpVal of a Value that was never given one (a nil interface).
NoVal == "nil"
\* armed[h] when no finalizer is set on h.
NoFin == -1
\* What the finalizer `finalize` captures (nothing).
FinalizeFn == 0
\* The goroutines that call Get, and the runtime's finalizer goroutine.
Getters == {"g1", "g2"}
FinProc == "fin"
Procs == Getters \cup {FinProc}
\* mu when no goroutine holds it.
NoProc == "none"

VARIABLES
    variant,      \* which source file is running: "flag", "gen" or "refs"
    valSafe,      \* [isNil, m]: nil, or the (strong) map of safe+leaky mode
    valMap,       \* value -> handle (a uintptr the collector does not see)
    alloc,        \* h is an allocated Value
    cmpVal,       \* Value.cmpVal
    resurrected,  \* Value.resurrected (intern.go)
    gen,          \* Value.gen (part_000)
    refs,         \* Value.refs (part_002)
    armed,        \* the finalizer set on h: NoFin, or what its closure captured
    queued,       \* finalizers of h the runtime has queued to run
    ext,          \* strong references callers hold on h
    unreach,      \* the last mark phase found h unreachable; sweep is pending
    stopped,      \* values the program no longer passes to Get
    throws,       \* runtime.SetFinalizer found a finalizer already set (fatal)
    mu,           \* the goroutine holding mu, or NoProc
    proc,         \* per goroutine: where it is in Get / finalize, its locals,
                  \*   and history: missed (its Get allocated), peer (the
                  \*   handle a concurrent Get of an equal value allocated),
                  \*   sawRemove (that handle's entry was removed since)
    gotAs,        \* history: the arguments for which Get returned h
    lastEv,       \* history: the last protocol event on h
    dropped,      \* history: some caller has dropped a reference
    sinceClear,   \* history: Get returned h after the last clearMap
    runs,         \* history: finalizer runs on h since Get last returned h or
                  \*          its last reference was dropped
    nGet,         \* history (refs iteration): times Get returned h
    nFin          \* history (refs iteration): finalize runs on h

heapVars == <<alloc, cmpVal, resurrected, gen, refs>>
finVars == <<armed, queued>>
histVars == <<gotAs, lastEv, dropped, sinceClear>>
cntVars == <<nGet, nFin>>
lockVars == <<mu, proc>>
vars == <<variant, valSafe, valMap, alloc, cmpVal, resurrected, gen, refs,
          armed, queued, ext, unreach, stopped, throws, mu, proc, gotAs,
          lastEv, dropped, sinceClear, runs, nGet, nFin>>

EmptyMap == [x \in Values |-> Nil]

\* ---------------------------------------------------------------- helpers
\* v.Get()
ValueGet(h) == cmpVal[h]

\* The address the allocator hands out for a new Value.
FreeHandles == {h \in Handles : ~alloc[h]}
NewHandle == CHOOSE h \in FreeHandles : \A g \in FreeHandles : h <= g

\* len(valMap)
mapLen == Cardinality({x \in Values : valMap[x] # Nil})

\* runtime.SetFinalizer(v, f), f capturing c; SetFinalizer(v, nil) is c = NoFin.
SetFinalizer(a, h, c) == [a EXCEPT ![h] = c]
\* runtime.SetFinalizer(v, f) with f non-nil throws when a finalizer is set.
AlreadySet(a, h) == a[h] # NoFin

\* A goroutine outside Get and finalize.
IdleProc ==
    [pc |-> "idle", arg |-> NoVal, fin |-> Nil, local |-> Nil, ret |-> Nil,
     missed |-> FALSE, peer |-> Nil, sawRemove |-> FALSE]

\* ------------------------------------------------------------------- Init
InitCommon ==
    /\ valMap = EmptyMap
    /\ alloc = [h \in Handles |-> FALSE]
    /\ cmpVal = [h \in Handles |-> NoVal]
    /\ resurrected = [h \in Handles |-> FALSE]
    /\ gen = [h \in Handles |-> 0]
    /\ refs = [h \in Handles |-> 0]
    /\ armed = [h \in Handles |-> NoFin]
    /\ queued = [h \in Handles |-> {}]
    /\ ext = [h \in Handles |-> 0]
    /\ unreach = [h \in Handles |-> FALSE]
    /\ stopped = {}
    /\ throws = FALSE
    /\ mu = NoProc
    /\ proc = [t \in Procs |-> IdleProc]
    /\ gotAs = [h \in Handles |-> {}]
    /\ lastEv = [h \in Handles |-> "none"]
    /\ dropped = FALSE
    /\ sinceClear = [h \in Handles |-> FALSE]
    /\ runs = [h \in Handles |-> 0]
    /\ nGet = [h \in Handles |-> 0]
    /\ nFin = [h \in Handles |-> 0]

\* safeMap() with GO4_INTERN_SAFE_BUT_LEAKY unset or false
safeMapOff == [isNil |-> TRUE, m |-> EmptyMap]
\* safeMap() with GO4_INTERN_SAFE_BUT_LEAKY true
safeMapOn == [isNil |-> FALSE, m |-> EmptyMap]

Init ==
    /\ variant = "flag"
    /\ valSafe = safeMapOff
    /\ InitCommon

\* ------------------------------------------------------- Get (intern.go)
\* GetNew with the insertion into valMap forgotten.
GetNewNoInsert(x) ==
    /\ FreeHandles # {}
    /\ LET v == NewHandle IN
        /\ alloc' = [alloc EXCEPT ![v] = TRUE]
        /\ cmpVal' = [cmpVal EXCEPT ![v] = x]
        /\ resurrected' = [resurrected EXCEPT ![v] = FALSE]
        /\ armed' = SetFinalizer(armed, v, FinalizeFn)
        /\ throws' = (throws \/ AlreadySet(armed, v))
        /\ ext' = [ext EXCEPT ![v] = 1]
        /\ gotAs' = [gotAs EXCEPT ![v] = {x}]
        /\ lastEv' = [lastEv EXCEPT ![v] = "new"]
        /\ sinceClear' = [sinceClear EXCEPT ![v] = TRUE]
        /\ runs' = [runs EXCEPT ![v] = 0]
    /\ UNCHANGED <<valMap, gen, refs, queued, dropped>>

\* GetNew with the cmpVal field of the new Value left unset.
GetNewNoVal(x) ==
    /\ FreeHandles # {}
    /\ LET v == NewHandle IN
        /\ alloc' = [alloc EXCEPT ![v] = TRUE]
        /\ resurrected' = [resurrected EXCEPT ![v] = FALSE]
        /\ valMap' = [valMap EXCEPT ![x] = v]
        /\ armed' = SetFinalizer(armed, v, FinalizeFn)
        /\ throws' = (throws \/ AlreadySet(armed, v))
        /\ ext' = [ext EXCEPT ![v] = 1]
        /\ gotAs' = [gotAs EXCEPT ![v] = {x}]
        /\ lastEv' = [lastEv EXCEPT ![v] = "new"]
        /\ sinceClear' = [sinceClear EXCEPT ![v] = TRUE]
        /\ runs' = [runs EXCEPT ![v] = 0]
    /\ UNCHANGED <<cmpVal, gen, refs, queued, dropped>>

\* The allocation at the end of Get: a new Value for x, entered in valMap,
\* with finalize set on it, returned to the caller.
GetNew(x) ==
    /\ FreeHandles # {}
    /\ LET v == NewHandle IN
        /\ alloc' = [alloc EXCEPT ![v] = TRUE]
        /\ cmpVal' = [cmpVal EXCEPT ![v] = x]
        /\ resurrected' = [resurrected EXCEPT ![v] = FALSE]
        /\ valMap' = [valMap EXCEPT ![x] = v]
        /\ armed' = SetFinalizer(armed, v, FinalizeFn)
        /\ throws' = (throws \/ AlreadySet(armed, v))
        /\ ext' = [ext EXCEPT ![v] = 1]
        /\ gotAs' = [gotAs EXCEPT ![v] = {x}]
        /\ lastEv' = [lastEv EXCEPT ![v] = "new"]
        /\ sinceClear' = [sinceClear EXCEPT ![v] = TRUE]
        /\ runs' = [runs EXCEPT ![v] = 0]
    /\ UNCHANGED <<gen, refs, queued, dropped>>

\* The hit branch of Get with a finalizer set again on the Value found.
GetHitOnRearm(v, x) ==
    /\ ext[v] < MaxRefs
    /\ resurrected' = [resurrected EXCEPT ![v] = TRUE]
    /\ armed' = SetFinalizer(armed, v, FinalizeFn)
    /\ throws' = (throws \/ AlreadySet(armed, v))
    /\ ext' = [ext EXCEPT ![v] = @ + 1]
    /\ gotAs' = [gotAs EXCEPT ![v] = @ \cup {x}]
    /\ lastEv' = [lastEv EXCEPT ![v] = "hit"]
    /\ sinceClear' = [sinceClear EXCEPT ![v] = TRUE]
    /\ runs' = [runs EXCEPT ![v] = 0]
    /\ UNCHANGED <<valMap, alloc, cmpVal, gen, refs, queued, dropped>>

\* The hit branch of Get on the Value v found for x: the pointer is
\* materialized from the uintptr, resurrected is set, the pointer returned.
GetHitOn(v, x) ==
    /\ ext[v] < MaxRefs
    /\ resurrected' = [resurrected EXCEPT ![v] = TRUE]
    /\ ext' = [ext EXCEPT ![v] = @ + 1]
    /\ gotAs' = [gotAs EXCEPT ![v] = @ \cup {x}]
    /\ lastEv' = [lastEv EXCEPT ![v] = "hit"]
    /\ sinceClear' = [sinceClear EXCEPT ![v] = TRUE]
    /\ runs' = [runs EXCEPT ![v] = 0]
    /\ UNCHANGED <<valMap, alloc, cmpVal, gen, refs, armed, queued, dropped,
                   throws>>

GetHit(x) == GetHitOn(valMap[x], x)

\* One call of Get, from mu.Lock() to the deferred mu.Unlock().
Get(x) ==
    /\ x \notin stopped
    /\ IF ~valSafe.isNil
         THEN \* v = valSafe[cmpVal] is read and then overwritten below
              GetNew(x)
         ELSE IF valMap[x] # Nil
                THEN GetHit(x)
                ELSE GetNew(x)
    /\ UNCHANGED <<variant, valSafe, unreach, stopped, cntVars, lockVars>>

\* ------------------------------------------------- finalize (intern.go)
\* The naive finalizer: it deletes the entry without looking at resurrected.
finalizeNaive(v) ==
    /\ FinalizeFn \in queued[v]
    /\ queued' = [queued EXCEPT ![v] = @ \ {FinalizeFn}]
    /\ valMap' = [valMap EXCEPT ![cmpVal[v]] = Nil]
    /\ lastEv' = [lastEv EXCEPT ![v] = "removed"]
    /\ runs' = [runs EXCEPT ![v] = @ + 1]
    /\ UNCHANGED <<variant, valSafe, alloc, cmpVal, resurrected, armed, gen,
                   refs, ext, unreach, stopped, gotAs, dropped, sinceClear,
                   throws, cntVars, lockVars>>

\* finalize that clears resurrected but does not set itself again.
finalizeNoRearm(v) ==
    /\ FinalizeFn \in queued[v]
    /\ queued' = [queued EXCEPT ![v] = @ \ {FinalizeFn}]
    /\ IF resurrected[v]
         THEN /\ resurrected' = [resurrected EXCEPT ![v] = FALSE]
              /\ lastEv' = [lastEv EXCEPT ![v] = "defer"]
              /\ UNCHANGED valMap
         ELSE /\ valMap' = [valMap EXCEPT ![cmpVal[v]] = Nil]
              /\ lastEv' = [lastEv EXCEPT ![v] = "removed"]
              /\ UNCHANGED resurrected
    /\ runs' = [runs EXCEPT ![v] = @ + 1]
    /\ UNCHANGED <<variant, valSafe, alloc, cmpVal, armed, gen, refs, ext,
                   unreach, stopped, gotAs, dropped, sinceClear, throws,
                   cntVars, lockVars>>

\* finalize that sets itself again in both branches.
finalizeAlwaysRearm(v) ==
    /\ FinalizeFn \in queued[v]
    /\ queued' = [queued EXCEPT ![v] = @ \ {FinalizeFn}]
    /\ IF resurrected[v]
         THEN /\ resurrected' = [resurrected EXCEPT ![v] = FALSE]
              /\ lastEv' = [lastEv EXCEPT ![v] = "defer"]
              /\ UNCHANGED valMap
         ELSE /\ valMap' = [valMap EXCEPT ![cmpVal[v]] = Nil]
              /\ lastEv' = [lastEv EXCEPT ![v] = "removed"]
              /\ UNCHANGED resurrected
    /\ armed' = SetFinalizer(armed, v, FinalizeFn)
    /\ throws' = (throws \/ AlreadySet(armed, v))
    /\ runs' = [runs EXCEPT ![v] = @ + 1]
    /\ UNCHANGED <<variant, valSafe, alloc, cmpVal, gen, refs, ext,
                   unreach, stopped, gotAs, dropped, sinceClear,
                   cntVars, lockVars>>

\* finalize that sets itself again but leaves resurrected set.
finalizeKeepFlag(v) ==
    /\ FinalizeFn \in queued[v]
    /\ queued' = [queued EXCEPT ![v] = @ \ {FinalizeFn}]
    /\ IF resurrected[v]
         THEN /\ armed' = SetFinalizer(armed, v, FinalizeFn)
              /\ throws' = (throws \/ AlreadySet(armed, v))
              /\ lastEv' = [lastEv EXCEPT ![v] = "defer"]
              /\ UNCHANGED valMap
         ELSE /\ valMap' = [valMap EXCEPT ![cmpVal[v]] = Nil]
              /\ lastEv' = [lastEv EXCEPT ![v] = "removed"]
              /\ UNCHANGED <<armed, throws>>
    /\ runs' = [runs EXCEPT ![v] = IF @ < MaxCount THEN @ + 1 ELSE @]
    /\ UNCHANGED <<variant, valSafe, alloc, cmpVal, resurrected, gen, refs,
                   ext, unreach, stopped, gotAs, dropped, sinceClear,
                   cntVars, lockVars>>

\* The body of finalize, run with mu held.
finalizeBody(v) ==
    /\ IF resurrected[v]
         THEN /\ resurrected' = [resurrected EXCEPT ![v] = FALSE]
              /\ armed' = SetFinalizer(armed, v, FinalizeFn)
              /\ throws' = (throws \/ AlreadySet(armed, v))
              /\ lastEv' = [lastEv EXCEPT ![v] = "defer"]
              /\ UNCHANGED valMap
         ELSE /\ valMap' = [valMap EXCEPT ![cmpVal[v]] = Nil]
              /\ lastEv' = [lastEv EXCEPT ![v] = "removed"]
              /\ UNCHANGED <<resurrected, armed, throws>>
    /\ runs' = [runs EXCEPT ![v] = @ + 1]
    /\ UNCHANGED <<alloc, cmpVal, gen, refs, ext, gotAs, dropped, sinceClear>>

\* One run of finalize on v: the runtime takes it from the queue and calls
\* it; from mu.Lock() to the deferred mu.Unlock().
finalize(v) ==
    /\ FinalizeFn \in queued[v]
    /\ queued' = [queued EXCEPT ![v] = @ \ {FinalizeFn}]
    /\ finalizeBody(v)
    /\ UNCHANGED <<variant, valSafe, unreach, stopped, cntVars, lockVars>>

\* --------------------------------------------------------------- callers
\* A caller drops one strong reference to h.
Drop(h) ==
    /\ ext[h] > 0
    /\ ext' = [ext EXCEPT ![h] = @ - 1]
    /\ dropped' = TRUE
    /\ runs' = IF ext[h] = 1 THEN [runs EXCEPT ![h] = 0] ELSE runs
    /\ UNCHANGED <<variant, valSafe, valMap, heapVars, finVars, unreach,
                   stopped, gotAs, lastEv, sinceClear, throws, cntVars,
                   lockVars>>

\* The program stops passing x to Get (the phase in which the tests only
\* run the collector and wait for the table to empty).
StopGet(x) ==
    /\ x \notin stopped
    /\ stopped' = stopped \cup {x}
    /\ UNCHANGED <<variant, valSafe, valMap, heapVars, finVars, ext, unreach,
                   histVars, runs, throws, cntVars, lockVars>>

\* ------------------------------------------------------------- collector
\* A mark phase ends having found no strong reference to h.  valMap holds
\* a uintptr, which the collector does not trace; a queued finalizer holds
\* its Value, and so does the finalizer goroutine while it runs it.
Mark(h) ==
    /\ alloc[h]
    /\ ext[h] = 0
    /\ queued[h] = {}
    /\ proc[FinProc].fin # h
    /\ ~unreach[h]
    /\ unreach' = [unreach EXCEPT ![h] = TRUE]
    /\ UNCHANGED <<variant, valSafe, valMap, heapVars, finVars, ext, stopped,
                   histVars, runs, throws, cntVars, lockVars>>

\* The sweep of the cycle that found h unreachable: the finalizer that is
\* set on h at that moment is queued and h lives on; with no finalizer
\* set, h is freed.
Sweep(h) ==
    /\ unreach[h]
    /\ unreach' = [unreach EXCEPT ![h] = FALSE]
    /\ IF armed[h] # NoFin
         THEN /\ queued' = [queued EXCEPT ![h] = @ \cup {armed[h]}]
              /\ armed' = SetFinalizer(armed, h, NoFin)
              /\ UNCHANGED <<heapVars, ext, histVars, runs, cntVars>>
         ELSE /\ alloc' = [alloc EXCEPT ![h] = FALSE]
              /\ cmpVal' = [cmpVal EXCEPT ![h] = NoVal]
              /\ resurrected' = [resurrected EXCEPT ![h] = FALSE]
              /\ gen' = [gen EXCEPT ![h] = 0]
              /\ refs' = [refs EXCEPT ![h] = 0]
              /\ ext' = [ext EXCEPT ![h] = 0]
              /\ gotAs' = [gotAs EXCEPT ![h] = {}]
              /\ lastEv' = [lastEv EXCEPT ![h] = "none"]
              /\ sinceClear' = [sinceClear EXCEPT ![h] = FALSE]
              /\ runs' = [runs EXCEPT ![h] = 0]
              /\ nGet' = [nGet EXCEPT ![h] = 0]
              /\ nFin' = [nFin EXCEPT ![h] = 0]
              /\ UNCHANGED <<finVars, dropped>>
    /\ UNCHANGED <<variant, valSafe, valMap, stopped, throws, lockVars>>

\* ------------------------------------------------------------------ Spec
Next ==
    \/ \E x \in Values : Get(x)
    \/ \E h \in Handles : finalize(h)
    \/ \E h \in Handles : Drop(h)
    \/ \E x \in Values : StopGet(x)
    \/ \E h \in Handles : Mark(h)
    \/ \E h \in Handles : Sweep(h)

Spec == Init /\ [][Next]_vars

\* ------------------------------------------- clearMap (intern_test.go)
clearMap ==
    /\ valMap' = EmptyMap
    /\ sinceClear' = [h \in Handles |-> FALSE]
    /\ UNCHANGED <<variant, valSafe, heapVars, finVars, ext, unreach, stopped,
                   gotAs, lastEv, dropped, runs, throws, cntVars, lockVars>>

NextClear ==
    \/ \E x \in Values : Get(x)
    \/ \E h \in Handles : finalize(h)
    \/ \E h \in Handles : Drop(h)
    \/ \E h \in Handles : Mark(h)
    \/ \E h \in Handles : Sweep(h)
    \/ clearMap

\* The package with the test helper clearMap in play.
SpecClear == Init /\ [][NextClear]_vars

\* ------------------------------------------------------ safe+leaky mode
InitSafe ==
    /\ variant = "flag"
    /\ valSafe = safeMapOn
    /\ InitCommon

SpecSafe == InitSafe /\ [][Next]_vars

\* --------------------------------------------------------------- fairness
\* The collector keeps running cycles (runtime.GC in a loop) and the
\* runtime's finalizer goroutine runs every queued finalizer.
Fairness ==
    \A h \in Handles :
        /\ WF_vars(Mark(h))
        /\ WF_vars(Sweep(h))
        /\ WF_vars(finalize(h))

FairSpec == Spec /\ Fairness

\* ------------------------------------- generation counter (part_000)
GenGet(x) ==
    /\ x \notin stopped
    /\ valMap[x] = Nil => FreeHandles # {}
    /\ LET ok == valMap[x] # Nil
           v == IF ok THEN valMap[x] ELSE NewHandle
           curGen == gen[v] + 1
           cleared == IF curGen > 1 THEN SetFinalizer(armed, v, NoFin)
                                    ELSE armed
       IN
        /\ curGen <= MaxCount
        /\ ext[v] < MaxRefs
        /\ alloc' = [alloc EXCEPT ![v] = TRUE]
        /\ cmpVal' = IF ok THEN cmpVal ELSE [cmpVal EXCEPT ![v] = x]
        /\ valMap' = IF ok THEN valMap ELSE [valMap EXCEPT ![x] = v]
        /\ gen' = [gen EXCEPT ![v] = curGen]
        /\ armed' = SetFinalizer(cleared, v, curGen)
        /\ throws' = (throws \/ AlreadySet(cleared, v))
        /\ ext' = [ext EXCEPT ![v] = @ + 1]
        /\ gotAs' = [gotAs EXCEPT ![v] = @ \cup {x}]
        /\ lastEv' = [lastEv EXCEPT ![v] = IF ok THEN "hit" ELSE "new"]
        /\ sinceClear' = [sinceClear EXCEPT ![v] = TRUE]
        /\ runs' = [runs EXCEPT ![v] = 0]
    /\ UNCHANGED <<variant, valSafe, resurrected, refs, queued, unreach,
                   stopped, dropped, cntVars, lockVars>>

\* The closure with the comparison of generations left out.
GenFinalizerAlways(v, curGen) ==
    /\ curGen \in queued[v]
    /\ queued' = [queued EXCEPT ![v] = @ \ {curGen}]
    /\ valMap' = [valMap EXCEPT ![cmpVal[v]] = Nil]
    /\ lastEv' = [lastEv EXCEPT ![v] = "removed"]
    /\ runs' = [runs EXCEPT ![v] = @ + 1]
    /\ UNCHANGED <<variant, valSafe, heapVars, armed, ext, unreach, stopped,
                   gotAs, dropped, sinceClear, throws, cntVars, lockVars>>

\* The closure Get sets as finalizer, which captured curGen.
GenFinalizer(v, curGen) ==
    /\ curGen \in queued[v]
    /\ queued' = [queued EXCEPT ![v] = @ \ {curGen}]
    /\ IF gen[v] # curGen
         THEN /\ lastEv' = [lastEv EXCEPT ![v] = "defer"]
              /\ UNCHANGED valMap
         ELSE /\ valMap' = [valMap EXCEPT ![cmpVal[v]] = Nil]
              /\ lastEv' = [lastEv EXCEPT ![v] = "removed"]
    /\ runs' = [runs EXCEPT ![v] = @ + 1]
    /\ UNCHANGED <<variant, valSafe, heapVars, armed, ext, unreach, stopped,
                   gotAs, dropped, sinceClear, throws, cntVars, lockVars>>

InitGen ==
    /\ variant = "gen"
    /\ valSafe = safeMapOff
    /\ InitCommon

NextGen ==
    \/ \E x \in Values : GenGet(x)
    \/ \E h \in Handles, g \in 1..MaxCount : GenFinalizer(h, g)
    \/ \E h \in Handles : Drop(h)
    \/ \E x \in Values : StopGet(x)
    \/ \E h \in Handles : Mark(h)
    \/ \E h \in Handles : Sweep(h)

SpecGen == InitGen /\ [][NextGen]_vars

FairnessGen ==
    \A h \in Handles :
        /\ WF_vars(Mark(h))
        /\ WF_vars(Sweep(h))
        /\ \A g \in 1..MaxCount : WF_vars(GenFinalizer(h, g))

FairSpecGen == SpecGen /\ FairnessGen

\* ------------------------------------------- refs counter (part_002)
\* Get whose hit branch does not count the reference it returns.
RefsGetNoCount(x) ==
    /\ x \notin stopped
    /\ IF valMap[x] # Nil
         THEN LET v == valMap[x] IN
              /\ nGet[v] < MaxCount
              /\ ext[v] < MaxRefs
              /\ ext' = [ext EXCEPT ![v] = @ + 1]
              /\ gotAs' = [gotAs EXCEPT ![v] = @ \cup {x}]
              /\ lastEv' = [lastEv EXCEPT ![v] = "hit"]
              /\ sinceClear' = [sinceClear EXCEPT ![v] = TRUE]
              /\ runs' = [runs EXCEPT ![v] = 0]
              /\ nGet' = [nGet EXCEPT ![v] = @ + 1]
              /\ UNCHANGED <<valMap, alloc, cmpVal, armed, throws, refs>>
         ELSE /\ FreeHandles # {}
              /\ LET v == NewHandle IN
                  /\ alloc' = [alloc EXCEPT ![v] = TRUE]
                  /\ cmpVal' = [cmpVal EXCEPT ![v] = x]
                  /\ refs' = [refs EXCEPT ![v] = 1]
                  /\ valMap' = [valMap EXCEPT ![x] = v]
                  /\ armed' = SetFinalizer(armed, v, FinalizeFn)
                  /\ throws' = (throws \/ AlreadySet(armed, v))
                  /\ ext' = [ext EXCEPT ![v] = 1]
                  /\ gotAs' = [gotAs EXCEPT ![v] = {x}]
                  /\ lastEv' = [lastEv EXCEPT ![v] = "new"]
                  /\ sinceClear' = [sinceClear EXCEPT ![v] = TRUE]
                  /\ runs' = [runs EXCEPT ![v] = 0]
                  /\ nGet' = [nGet EXCEPT ![v] = 1]
    /\ UNCHANGED <<variant, valSafe, resurrected, gen, queued, unreach,
                   stopped, dropped, nFin, lockVars>>

RefsGet(x) ==
    /\ x \notin stopped
    /\ IF valMap[x] # Nil
         THEN LET v == valMap[x] IN
              /\ refs[v] < MaxCount
              /\ nGet[v] < MaxCount
              /\ ext[v] < MaxRefs
              /\ refs' = [refs EXCEPT ![v] = @ + 1]
              /\ ext' = [ext EXCEPT ![v] = @ + 1]
              /\ gotAs' = [gotAs EXCEPT ![v] = @ \cup {x}]
              /\ lastEv' = [lastEv EXCEPT ![v] = "hit"]
              /\ sinceClear' = [sinceClear EXCEPT ![v] = TRUE]
              /\ runs' = [runs EXCEPT ![v] = 0]
              /\ nGet' = [nGet EXCEPT ![v] = @ + 1]
              /\ UNCHANGED <<valMap, alloc, cmpVal, armed, throws>>
         ELSE /\ FreeHandles # {}
              /\ LET v == NewHandle IN
                  /\ alloc' = [alloc EXCEPT ![v] = TRUE]
                  /\ cmpVal' = [cmpVal EXCEPT ![v] = x]
                  /\ refs' = [refs EXCEPT ![v] = 1]
                  /\ valMap' = [valMap EXCEPT ![x] = v]
                  /\ armed' = SetFinalizer(armed, v, FinalizeFn)
                  /\ throws' = (throws \/ AlreadySet(armed, v))
                  /\ ext' = [ext EXCEPT ![v] = 1]
                  /\ gotAs' = [gotAs EXCEPT ![v] = {x}]
                  /\ lastEv' = [lastEv EXCEPT ![v] = "new"]
                  /\ sinceClear' = [sinceClear EXCEPT ![v] = TRUE]
                  /\ runs' = [runs EXCEPT ![v] = 0]
                  /\ nGet' = [nGet EXCEPT ![v] = 1]
    /\ UNCHANGED <<variant, valSafe, resurrected, gen, queued, unreach,
                   stopped, dropped, nFin, lockVars>>

RefsFinalize(v) ==
    /\ FinalizeFn \in queued[v]
    /\ queued' = [queued EXCEPT ![v] = @ \ {FinalizeFn}]
    /\ refs' = [refs EXCEPT ![v] = @ - 1]
    /\ IF refs'[v] = 0
         THEN /\ valMap' = [valMap EXCEPT ![cmpVal[v]] = Nil]
              /\ lastEv' = [lastEv EXCEPT ![v] = "removed"]
              /\ UNCHANGED <<armed, throws>>
         ELSE /\ armed' = SetFinalizer(armed, v, FinalizeFn)
              /\ throws' = (throws \/ AlreadySet(armed, v))
              /\ lastEv' = [lastEv EXCEPT ![v] = "defer"]
              /\ UNCHANGED valMap
    /\ runs' = [runs EXCEPT ![v] = @ + 1]
    /\ nFin' = [nFin EXCEPT ![v] = @ + 1]
    /\ UNCHANGED <<variant, valSafe, alloc, cmpVal, resurrected, gen, ext,
                   unreach, stopped, gotAs, dropped, sinceClear, nGet,
                   lockVars>>

InitRefs ==
    /\ variant = "refs"
    /\ valSafe = safeMapOff
    /\ InitCommon

\* The refs iteration while the program keeps calling Get.
NextRefs ==
    \/ \E x \in Values : RefsGet(x)
    \/ \E h \in Handles : RefsFinalize(h)
    \/ \E h \in Handles : Drop(h)
    \/ \E h \in Handles : Mark(h)
    \/ \E h \in Handles : Sweep(h)

SpecRefs == InitRefs /\ [][NextRefs]_vars

\* ------------------------------------------- the three iterations
InitVariants ==
    /\ variant \in {"flag", "gen", "refs"}
    /\ valSafe = safeMapOff
    /\ InitCommon

NextVariants ==
    \/ variant = "flag" /\ \E x \in Values : Get(x)
    \/ variant = "flag" /\ \E h \in Handles : finalize(h)
    \/ variant = "gen" /\ \E x \in Values : GenGet(x)
    \/ variant = "gen" /\ \E h \in Handles, g \in 1..MaxCount : GenFinalizer(h, g)
    \/ variant = "refs" /\ \E x \in Values : RefsGet(x)
    \/ variant = "refs" /\ \E h \in Handles : RefsFinalize(h)
    \/ \E h \in Handles : Drop(h)
    \/ \E x \in Values : StopGet(x)
    \/ \E h \in Handles : Mark(h)
    \/ \E h \in Handles : Sweep(h)

SpecVariants == InitVariants /\ [][NextVariants]_vars

\* ------------------------------------------- Get and finalize under mu
\* Everything but the mutex and the goroutines' positions.
dataVars == <<variant, valSafe, valMap, heapVars, finVars, ext, unreach,
              stopped, throws, histVars, runs, cntVars>>

\* Goroutine t calls Get(x).
GetCall(t, x) ==
    /\ proc[t].pc = "idle"
    /\ proc' = [proc EXCEPT ![t] = [IdleProc EXCEPT !.pc = "call", !.arg = x]]
    /\ UNCHANGED <<dataVars, mu>>

\* mu.Lock() that does not wait for the holder to unlock.
GetLockNoWait(t) ==
    /\ proc[t].pc = "call"
    /\ mu' = t
    /\ proc' = [proc EXCEPT ![t].pc = "locked"]
    /\ UNCHANGED dataVars

\* mu.Lock() in Get
GetLock(t) ==
    /\ proc[t].pc = "call"
    /\ mu = NoProc
    /\ mu' = t
    /\ proc' = [proc EXCEPT ![t].pc = "locked"]
    /\ UNCHANGED dataVars

\* addr, ok := valMap[cmpVal]
GetLookup(t) ==
    /\ proc[t].pc = "locked"
    /\ proc' = [proc EXCEPT ![t].pc = "found",
                            ![t].local = IF valSafe.isNil
                                           THEN valMap[proc[t].arg]
                                           ELSE Nil]
    /\ UNCHANGED <<dataVars, mu>>

\* The rest of the body of Get: the hit branch on the Value found, or the
\* allocation.  A goroutine waiting in a call with an equal value sees the
\* allocation.
GetAct(t) ==
    /\ proc[t].pc = "found"
    /\ LET x == proc[t].arg
           v == proc[t].local
           miss == v = Nil
           new == IF miss /\ FreeHandles # {} THEN NewHandle ELSE Nil
       IN
        /\ IF miss THEN GetNew(x) ELSE GetHitOn(v, x)
        /\ proc' = [u \in Procs |->
                      IF u = t
                        THEN [proc[u] EXCEPT !.pc = "unlock", !.missed = miss,
                                             !.ret = IF miss THEN new ELSE v]
                      ELSE IF miss /\ proc[u].pc # "idle" /\ proc[u].arg = x
                        THEN [proc[u] EXCEPT !.peer = new, !.sawRemove = FALSE]
                      ELSE proc[u]]
    /\ UNCHANGED <<variant, valSafe, unreach, stopped, cntVars, mu>>

\* The deferred mu.Unlock() of Get, and the return.
GetUnlock(t) ==
    /\ proc[t].pc = "unlock"
    /\ mu' = NoProc
    /\ proc' = [proc EXCEPT ![t] = IdleProc]
    /\ UNCHANGED dataVars

\* The finalizer goroutine takes finalize(h) from the queue and calls it.
FinCall(h) ==
    /\ proc[FinProc].pc = "idle"
    /\ FinalizeFn \in queued[h]
    /\ queued' = [queued EXCEPT ![h] = @ \ {FinalizeFn}]
    /\ proc' = [proc EXCEPT ![FinProc].pc = "call", ![FinProc].fin = h]
    /\ UNCHANGED <<variant, valSafe, valMap, heapVars, armed, ext, unreach,
                   stopped, throws, histVars, runs, cntVars, mu>>

\* mu.Lock() in finalize
FinLock ==
    /\ proc[FinProc].pc = "call"
    /\ mu = NoProc
    /\ mu' = FinProc
    /\ proc' = [proc EXCEPT ![FinProc].pc = "locked"]
    /\ UNCHANGED dataVars

\* The body of finalize.  A goroutine waiting in a call of Get sees the
\* removal of the entry a concurrent call made.
FinRun ==
    /\ proc[FinProc].pc = "locked"
    /\ LET v == proc[FinProc].fin
           removes == ~resurrected[v]
       IN
        /\ finalizeBody(v)
        /\ proc' = [u \in Procs |->
                      IF u = FinProc
                        THEN [proc[u] EXCEPT !.pc = "unlock"]
                      ELSE IF /\ removes
                              /\ proc[u].pc # "idle"
                              /\ proc[u].arg = cmpVal[v]
                              /\ proc[u].peer # Nil
                        THEN [proc[u] EXCEPT !.sawRemove = TRUE]
                      ELSE proc[u]]
    /\ UNCHANGED <<variant, valSafe, queued, unreach, stopped, cntVars, mu>>

\* The deferred mu.Unlock() of finalize, and the return.
FinUnlock ==
    /\ proc[FinProc].pc = "unlock"
    /\ mu' = NoProc
    /\ proc' = [proc EXCEPT ![FinProc] = IdleProc]
    /\ UNCHANGED dataVars

NextLock ==
    \/ \E t \in Getters, x \in Values : GetCall(t, x)
    \/ \E t \in Getters : GetLock(t)
    \/ \E t \in Getters : GetLookup(t)
    \/ \E t \in Getters : GetAct(t)
    \/ \E t \in Getters : GetUnlock(t)
    \/ \E h \in Handles : FinCall(h)
    \/ FinLock
    \/ FinRun
    \/ FinUnlock
    \/ \E h \in Handles : Drop(h)
    \/ \E h \in Handles : Mark(h)
    \/ \E h \in Handles : Sweep(h)

\* The package with the steps of Get and finalize interleaved.
SpecLock == Init /\ [][NextLock]_vars

\* ------------------------------------------------------ model sanity
TypeOK ==
    /\ variant \in {"flag", "gen", "refs"}
    /\ valMap \in [Values -> Handles \cup {Nil}]
    /\ alloc \in [Handles -> BOOLEAN]
    /\ cmpVal \in [Handles -> Values \cup {NoVal}]
    /\ resurrected \in [Handles -> BOOLEAN]
    /\ gen \in [Handles -> 0..MaxCount]
    /\ refs \in [Handles -> 0..MaxCount]
    /\ armed \in [Handles -> {NoFin} \cup 0..MaxCount]
    /\ queued \in [Handles -> SUBSET (0..MaxCount)]
    /\ ext \in [Handles -> 0..MaxRefs]
    /\ unreach \in [Handles -> BOOLEAN]
    /\ stopped \subseteq Values
    /\ throws \in BOOLEAN
    /\ mu \in Procs \cup {NoProc}
    /\ \A t \in Procs :
        /\ proc[t].pc \in {"idle", "call", "locked", "found", "unlock"}
        /\ proc[t].arg \in Values \cup {NoVal}
        /\ proc[t].fin \in Handles \cup {Nil}
        /\ proc[t].local \in Handles \cup {Nil}
        /\ proc[t].ret \in Handles \cup {Nil}
        /\ proc[t].peer \in Handles \cup {Nil}
    /\ runs \in [Handles -> 0..MaxCount]
    /\ nGet \in [Handles -> 0..MaxCount]
    /\ nFin \in [Handles -> 0..MaxCount]

\* No table entry and no caller refers to a freed Value.
NoDangling ==
    /\ \A x \in Values : valMap[x] # Nil => alloc[valMap[x]]
    /\ \A h \in Handles : ext[h] > 0 => alloc[h]

\* ---------------------------------------------------------------- claims
\* The handles of value x that some caller holds.
Held(x) == {h \in Handles : alloc[h] /\ ext[h] > 0 /\ cmpVal[h] = x}
\* A finalizer is set on h or queued for it.
Pending(h) == armed[h] # NoFin \/ queued[h] # {}
\* The values passed to Get so far (while no Value has been freed).
Gotten == UNION {gotAs[h] : h \in Handles}

\* C1: in the default mode there are never two distinct handles with
\* equal values that callers both hold: two retained results of Get are
\* the same handle exactly when their values are equal.
C1_Uniqueness ==
    \A h1, h2 \in Handles :
        (alloc[h1] /\ alloc[h2] /\ ext[h1] > 0 /\ ext[h2] > 0)
            => \A x1 \in gotAs[h1], x2 \in gotAs[h2] :
                   (h1 = h2) <=> (x1 = x2)

\* Two retained results of Get for one value, on a handle whose finalizer
\* ran in between, and a retained handle of the other value.
C1_Witness ==
    \E h1, h2 \in Handles :
        /\ ext[h1] = 2 /\ lastEv[h1] = "defer"
        /\ ext[h2] > 0 /\ cmpVal[h2] # cmpVal[h1]

\* C2: no step (finalize is the only one that deletes) removes the table
\* entry of a handle that a caller holds; a Get hit that lands between the
\* collector's verdict and finalize keeps the entry.
C2_NoRemovalWhileHeld ==
    [][\A h \in Handles :
          (alloc[h] /\ ext[h] > 0 /\ valMap[cmpVal[h]] = h)
              => valMap'[cmpVal[h]] = h]_vars

\* finalize ran on a handle that a Get hit had handed out again, and the
\* entry is still there.
C2_Witness ==
    \E h \in Handles :
        /\ alloc[h] /\ ext[h] = 1 /\ lastEv[h] = "defer"
        /\ valMap[cmpVal[h]] = h /\ armed[h] = FinalizeFn

\* C5: the handle Get(v) returned wraps v, at every moment of its life.
C5_ValueFidelity ==
    \A h \in Handles : alloc[h] => \A x \in gotAs[h] : ValueGet(h) = x

\* A handle for "bar" that went through a hit and a finalize run.
C5_Witness ==
    \E h \in Handles :
        alloc[h] /\ gotAs[h] = {"bar"} /\ lastEv[h] = "defer" /\ dropped

\* C6: the table has an entry for x iff a caller holds a handle of x or
\* the reclamation of x's handle is pending (finalizer set or queued, the
\* entry not yet removed).
C6_TableInvariant ==
    \A x \in Values :
        (valMap[x] # Nil) <=>
            \/ Held(x) # {}
            \/ \E h \in Handles :
                 alloc[h] /\ cmpVal[h] = x /\ valMap[x] = h /\ Pending(h)

\* An entry nobody holds, whose finalizer is queued; and a handle whose
\* entry is gone.
C6_Witness ==
    /\ \E h \in Handles :
         alloc[h] /\ ext[h] = 0 /\ valMap[cmpVal[h]] = h /\ queued[h] # {}
    /\ \E h \in Handles : alloc[h] /\ valMap[cmpVal[h]] # h

\* C7: from an empty table, while no returned handle has been dropped, the
\* table has as many entries as distinct values were passed to Get.
C7_EntriesWhileRetained ==
    ~dropped => mapLen = Cardinality(Gotten)

\* Get foo, bar, foo, bar with all four results retained.
C7_Witness ==
    /\ ~dropped /\ mapLen = 2
    /\ \A x \in Values : valMap[x] # Nil /\ ext[valMap[x]] = 2
\* C3: after clearMap, a handle for x that Get returned and a caller still
\* holds is the handle every later Get(x) returns: no second handle for x
\* is handed out after the clearMap while the first is held.
C3_StableAfterClear ==
    \A h1, h2 \in Handles :
        (/\ alloc[h1] /\ ext[h1] > 0 /\ sinceClear[h1]
         /\ alloc[h2] /\ ext[h2] > 0 /\ sinceClear[h2]
         /\ gotAs[h1] \cap gotAs[h2] # {})
            => h1 = h2

\* C4: once x is no longer passed to Get and no caller holds a handle of
\* x, the entry of x eventually goes; once nothing is passed to Get and
\* nothing is held, the table eventually is empty and stays empty.
C4_EventualReclamation ==
    /\ \A x \in Values :
         (x \in stopped /\ Held(x) = {}) ~> (valMap[x] = Nil)
    /\ (stopped = Values /\ \A h \in Handles : ext[h] = 0) ~> [](mapLen = 0)

\* Everything was dropped and reclaimed, one handle after a deferral.
C4_Witness ==
    /\ stopped = Values /\ mapLen = 0 /\ dropped
    /\ \A h \in Handles : ext[h] = 0
    /\ \E h \in Handles : lastEv[h] = "removed" /\ resurrected[h] = FALSE
                          /\ gotAs[h] # {}

\* C8: in safe+leaky mode two results of Get that are both held are the
\* same pointer iff the values are equal.
C8_SafeUniqueness ==
    ~valSafe.isNil =>
        \A h1, h2 \in Handles :
            (alloc[h1] /\ alloc[h2] /\ ext[h1] > 0 /\ ext[h2] > 0)
                => ((h1 = h2) <=> (gotAs[h1] = gotAs[h2]))

\* C9: in safe+leaky mode valMap is never written, no finalizer is set or
\* queued, and every handle Get made is kept in valSafe.
C9_SafeNoReclamation ==
    ~valSafe.isNil =>
        /\ valMap = EmptyMap
        /\ \A h \in Handles : ~Pending(h)
        /\ \A h \in Handles : gotAs[h] # {} => valSafe.m[cmpVal[h]] = h

\* C10: in each of the three iterations the entry of a held handle is in
\* the table, and no two held handles wrap the same value.
C10_VariantsSafe ==
    /\ \A h \in Handles : (alloc[h] /\ ext[h] > 0) => valMap[cmpVal[h]] = h
    /\ \A x \in Values : Cardinality(Held(x)) <= 1

\* The same, for the resurrected flag and the refs counter alone.
FlagAndRefsSafe == variant # "gen" => C10_VariantsSafe

\* A step in which finalize(h) is taken from the queue and run.
FinStep(h) == FinalizeFn \in queued[h] /\ FinalizeFn \notin queued'[h]
\* A step that removes the table entry of h.
Removal(h) ==
    /\ alloc[h]
    /\ valMap[cmpVal[h]] = h
    /\ valMap'[cmpVal[h]] # h

\* C11: when finalize runs on a handle whose resurrected marker is set, it
\* clears the marker, sets itself again on the same handle and leaves the
\* whole table as it was.
C11_DeferKeepsTable ==
    [][\A h \in Handles :
          (FinStep(h) /\ resurrected[h])
              => /\ ~resurrected'[h]
                 /\ armed'[h] = FinalizeFn
                 /\ valMap' = valMap]_vars

\* finalize has deferred on a handle: marker clear, finalizer set again,
\* and both values still have their entries.
C11_Witness ==
    \E h \in Handles :
        /\ lastEv[h] = "defer" /\ runs[h] = 1
        /\ ~resurrected[h] /\ armed[h] = FinalizeFn
        /\ valMap[cmpVal[h]] = h
        /\ mapLen = 2

\* C12: the marker is set exactly when the last event on the handle was a
\* Get hit; the entry of a handle is never removed in that state (the last
\* event before a removal is the creation or a deferring finalize run), and
\* the finalize run that follows a hit defers.
C12_NoRemovalAfterHit ==
    [][\A h \in Handles :
          /\ alloc[h] => (resurrected[h] <=> lastEv[h] = "hit")
          /\ Removal(h) => (FinStep(h) /\ lastEv[h] \in {"new", "defer"})
          /\ (FinStep(h) /\ lastEv[h] = "hit")
                => (lastEv'[h] = "defer" /\ valMap'[cmpVal[h]] = h)]_vars

\* An entry removed by the second finalize run after a hit.
C12_Witness ==
    \E h \in Handles : lastEv[h] = "removed" /\ runs[h] = 2

\* C13: of the finalize runs on a handle since its last reference was
\* dropped (with no Get of it since), the first removes the entry when no
\* hit happened since the creation or the last finalize run and defers
\* otherwise, and the second removes it: there is never a third.
C13_AtMostTwoRuns ==
    [][\A h \in Handles :
          (FinStep(h) /\ ext[h] = 0)
              => /\ runs[h] <= 1
                 /\ valMap[cmpVal[h]] = h
                 /\ (runs[h] = 0 /\ lastEv[h] # "hit")
                        => valMap'[cmpVal[h]] = Nil
                 /\ (runs[h] = 0 /\ lastEv[h] = "hit")
                        => (valMap' = valMap /\ runs'[h] = 1)
                 /\ runs[h] = 1 => valMap'[cmpVal[h]] = Nil]_vars

\* One unreferenced handle reclaimed by its first finalize run and another
\* by its second.
C13_Witness ==
    \E h1, h2 \in Handles :
        /\ lastEv[h1] = "removed" /\ runs[h1] = 1 /\ ext[h1] = 0
        /\ lastEv[h2] = "removed" /\ runs[h2] = 2 /\ ext[h2] = 0

\* C16: once finalize has removed the entry of a handle, no later Get
\* returns that handle (no new reference to it, no entry for it), its
\* marker stays clear and no finalizer is set on it or queued for it
\* again; a Get that finds no entry for its value allocates a Value that
\* was not allocated before, with the marker clear.
C16_ReclaimedIsTerminal ==
    [][/\ \A h \in Handles :
            lastEv[h] = "removed"
                => /\ lastEv'[h] \in {"removed", "none"}
                   /\ ext'[h] <= ext[h]
                   /\ gotAs'[h] \subseteq gotAs[h]
                   /\ ~resurrected[h] /\ ~resurrected'[h]
                   /\ armed'[h] = NoFin /\ queued'[h] = {}
                   /\ \A x \in Values : valMap'[x] # h
       /\ \A x \in Values :
            (valMap[x] = Nil /\ valMap'[x] # Nil)
                => /\ ~alloc[valMap'[x]] /\ lastEv[valMap'[x]] = "none"
                   /\ lastEv'[valMap'[x]] = "new"
                   /\ ~resurrected'[valMap'[x]]]_vars

\* A reclaimed handle that is not yet freed, while Get has already
\* allocated another handle for the same value.
C16_Witness ==
    \E h1, h2 \in Handles :
        /\ h1 # h2
        /\ alloc[h1] /\ lastEv[h1] = "removed"
        /\ valMap[cmpVal[h1]] = h2
        /\ lastEv[h2] = "new" /\ ~resurrected[h2] /\ ext[h2] > 0

\* finalize(h) has left the queue and has not yet run its body.
InFlight(h) ==
    proc[FinProc].fin = h /\ proc[FinProc].pc \in {"call", "locked"}

\* C19: in the default mode every handle with a table entry has exactly
\* one finalizer: set on it, or queued, or being run; and SetFinalizer is
\* never called on a handle that has a finalizer set.
C19_OneFinalizer ==
    /\ ~throws
    /\ \A x \in Values :
        valMap[x] # Nil =>
            Cardinality({k \in {"armed", "queued", "running"} :
                \/ k = "armed" /\ armed[valMap[x]] = FinalizeFn
                \/ k = "queued" /\ FinalizeFn \in queued[valMap[x]]
                \/ k = "running" /\ InFlight(valMap[x])}) = 1

\* One entry whose finalizer was set again by a deferring run, and one
\* entry whose finalizer is queued.
C19_Witness ==
    \E h1, h2 \in Handles :
        /\ alloc[h1] /\ alloc[h2]
        /\ valMap[cmpVal[h1]] = h1 /\ valMap[cmpVal[h2]] = h2
        /\ lastEv[h1] = "defer" /\ armed[h1] = FinalizeFn
        /\ FinalizeFn \in queued[h2] /\ armed[h2] = NoFin

\* C20: whenever finalize is queued for a handle, and so whenever it runs,
\* the table entry of the handle's value refers to that handle, and the
\* run changes no entry but that one.
C20_DeletesOwnEntry ==
    [][\A h \in Handles :
          /\ FinalizeFn \in queued[h] => (alloc[h] /\ valMap[cmpVal[h]] = h)
          /\ FinStep(h) =>
                \A x \in Values : valMap'[x] # valMap[x] => valMap[x] = h]_vars

\* finalize is queued for the handle of a value while an older handle of
\* the same value, already reclaimed, is still allocated.
C20_Witness ==
    \E h1, h2 \in Handles :
        /\ h1 # h2 /\ alloc[h1] /\ alloc[h2]
        /\ cmpVal[h1] = cmpVal[h2]
        /\ lastEv[h1] = "removed"
        /\ FinalizeFn \in queued[h2]

\* C18: in the refs iteration, for every handle in the table refs is the
\* number of times Get returned the handle minus the number of finalize
\* runs on it, and is at least 1; an entry is removed exactly by the
\* finalize run that brings refs to 0, which is the run that makes the
\* finalize runs as many as the Gets.
C18_RefsCounts ==
    [][\A h \in Handles :
          /\ alloc[h] => refs[h] = nGet[h] - nFin[h]
          /\ (alloc[h] /\ valMap[cmpVal[h]] = h) => refs[h] >= 1
          /\ Removal(h) => (FinStep(h) /\ refs[h] = 1 /\ refs'[h] = 0
                            /\ nFin'[h] = nGet[h])
          /\ (FinStep(h) /\ refs[h] > 1)
                => (valMap' = valMap /\ armed'[h] = FinalizeFn)]_vars

\* A handle Get returned three times, reclaimed by its third finalize run.
C18_Witness ==
    \E h \in Handles :
        /\ lastEv[h] = "removed"
        /\ nGet[h] = MaxCount /\ nFin[h] = MaxCount /\ refs[h] = 0

\* A step in which the closure of h that captured generation g is taken
\* from the queue and run.
GenStep(h, g) == g \in queued[h] /\ g \notin queued'[h]

\* C17: in the generation iteration a finalizer whose captured generation
\* differs from the current generation of its handle leaves the table as
\* it is, and when it returns the finalizer that captured the current
\* generation is set on the handle or queued; so once a value has no
\* holder and is no longer passed to Get, its entry is eventually removed.
C17_StaleFinalizer ==
    /\ [][\A h \in Handles, g \in 1..MaxCount :
             (GenStep(h, g) /\ g # gen[h])
                 => /\ valMap' = valMap
                    /\ (armed'[h] = gen[h] \/ gen[h] \in queued'[h])]_vars
    /\ \A x \in Values :
          (x \in stopped /\ Held(x) = {}) ~> (valMap[x] = Nil)

\* A stale finalizer has returned: the entry is there, the handle is
\* unreferenced and the finalizer of the current generation is set.
C17_Witness ==
    \E h \in Handles :
        /\ alloc[h] /\ valMap[cmpVal[h]] = h
        /\ lastEv[h] = "defer" /\ gen[h] >= 2
        /\ armed[h] = gen[h] /\ ext[h] = 0

\* Goroutine t is between mu.Lock() and mu.Unlock().
Critical(t) == proc[t].pc \in {"locked", "found", "unlock"}

\* C14: at most one call of Get or finalize is in its critical section,
\* and it is the holder of mu; every lookup in the table, every change of
\* the table and every change of a resurrected marker is a step of the
\* goroutine that holds mu, so these steps are totally ordered.
C14_MutualExclusion ==
    [][/\ \A t \in Procs : Critical(t) => mu = t
       /\ Cardinality({t \in Procs : Critical(t)}) <= 1
       /\ (valMap' # valMap \/ resurrected' # resurrected)
             => /\ mu # NoProc /\ mu' = mu
                /\ proc[mu].pc \in {"locked", "found"}
                /\ proc'[mu].pc = "unlock"
                /\ \A t \in Procs \ {mu} : proc'[t].pc = proc[t].pc
       /\ \A t \in Getters :
             (proc[t].pc = "locked" /\ proc'[t].pc = "found")
                 => (mu = t /\ mu' = t)]_vars

\* One goroutine has looked its value up and holds mu, while another
\* call of Get with the same value and a call of finalize wait for mu.
C14_Witness ==
    \E t, u \in Getters :
        /\ t # u /\ mu = t
        /\ proc[t].pc = "found" /\ proc[t].local # Nil
        /\ proc[u].pc = "call" /\ proc[u].arg = proc[t].arg
        /\ proc[FinProc].pc = "call"

\* Get allocates for x only when the table has no entry for x, and then
\* a Value that was not allocated.
AllocOnlyOnMiss ==
    \A x \in Values :
        (valMap'[x] # valMap[x] /\ valMap'[x] # Nil)
            => (valMap[x] = Nil /\ ~alloc[valMap'[x]])

\* C15 as stated: of the calls of Get with equal values that overlap in
\* time at most one allocates (a call during which another call with an
\* equal value allocated does not allocate itself and returns that
\* handle), and Get allocates for x only when the table has no entry for x.
C15_AsStated ==
    /\ [](\A t \in Getters :
            (proc[t].pc = "unlock" /\ proc[t].peer # Nil)
                => (~proc[t].missed /\ proc[t].ret = proc[t].peer))
    /\ [][AllocOnlyOnMiss]_vars

\* C15: a call of Get during which another call with an equal value
\* allocated a handle returns that handle without allocating, unless
\* finalize removed the entry of that handle in between (the other
\* caller dropped it and it was collected); then it allocates itself.
\* Get allocates for x only when the table has no entry for x.
C15_OneMissPerEntry ==
    /\ [](\A t \in Getters :
            (proc[t].pc = "unlock" /\ proc[t].peer # Nil)
                => IF proc[t].sawRemove
                     THEN proc[t].missed /\ proc[t].ret # Nil
                     ELSE ~proc[t].missed /\ proc[t].ret = proc[t].peer)
    /\ [][AllocOnlyOnMiss]_vars

\* Two overlapping calls with equal values: one allocated, the other
\* found the entry and is about to return the same handle.
C15_Witness ==
    \E t \in Getters :
        /\ proc[t].pc = "unlock" /\ ~proc[t].missed
        /\ proc[t].peer # Nil /\ ~proc[t].sawRemove
        /\ proc[t].ret = proc[t].peer
        /\ ext[proc[t].ret] = 2

\* Two overlapping calls with equal values that both allocated.
C15_BothMiss ==
    \E t \in Getters :
        /\ proc[t].pc = "unlock" /\ proc[t].missed
        /\ proc[t].peer # Nil /\ proc[t].sawRemove
====
